---- MODULE Spec2Model ----
(***************************************************************************)
(* Recursive feature selection / elimination driven by cross-validated     *)
(* ROC-AUC scores (disteval/recursive_selection_parallel.py).              *)
(*                                                                         *)
(* One call of recursive_feature_selection_roc_auc is a process whose      *)
(* position is pc; get_all_auc_scores runs inside it, either handing the   *)
(* candidates to a process pool (n_jobs > 1) or scoring them in a loop.    *)
(* AUC values are scaled integers: Scores = {0, 1, 2} stands for the AUC   *)
(* values {0.0, 0.5, 1.0}, so Half = 1 stands for the literal 0.5.         *)
(***************************************************************************)
EXTENDS Integers, Sequences, FiniteSets, TLC

\* X.shape[1]: the number of feature columns of the Feature Matrix.
NumFeatures == 3

Features == 0 .. (NumFeatures - 1)

\* Row indices of X, y and sample_weight; y holds two classes.
Samples == {0, 1, 2, 3}

y == [r \in Samples |-> IF r \in {0, 1} THEN 0 ELSE 1]

Classes == {y[r] : r \in Samples}

\* np.nan, the entry of a feature that is no candidate in a step.
NaN == -1

\* Python's None, the unset value_best / index_best.
NoneVal == -2

\* The AUC values roc_auc_score can return (scaled by 2), and the 0.5 of
\* the matching objectives on the same scale.
Scores == {0, 1, 2}

Half == 1

\* Inputs of the public entry point that the model enumerates.
NFeaturesArgs == {-1, 0, 1, NumFeatures + 1}

CvStepsArgs == {1, 2}

NJobsArgs == {1, 2}

\* The classifiers a caller may pass: which methods the object has; copy
\* tells the caller's object (<<>>) from the pickled copy sent along with
\* candidate c (<<c>>); fitted tells whether fit has been called on it.
Classifiers ==
    [has_fit : BOOLEAN, has_predict_proba : BOOLEAN,
     copy : {<<>>}, fitted : {FALSE}]

VARIABLES
    clf,                \* the classifier prototype handed in by the caller
    sample_weight,      \* TRUE: a weight vector was supplied, FALSE: None
    n_features_arg,     \* n_features as requested by the caller
    cv_steps,
    n_jobs,
    forward,
    matching_features,
    pc,                 \* position of the call
    err,                \* the exception that ended the call, "none" otherwise
    n_features,         \* the local n_features (clamped at line 108)
    selected_features,  \* the Search State
    auc_scores,         \* the Score Matrix, <<>> before np.zeros
    auc_scores_i,       \* the step's score array (list or array)
    cv_indices,         \* the CV Split Plan of the running step
    test_sets,          \* the dict test_sets of the running step
    futures,            \* the futures of the running step (n_jobs > 1)
    seq_pos,            \* items of test_sets already handled (n_jobs <= 1)
    n_calls,            \* invocations of __single_auc_score__ so far
    scorer_raised,      \* some invocation of __single_auc_score__ raised
    oracle,             \* the random source and the data-dependent scores
    call,               \* 1, or 2 for the repeated call of SpecPair
    first               \* outcome of the first call (SpecPair)

inputs == <<clf, sample_weight, n_features_arg, cv_steps, forward,
            matching_features>>

locals == <<n_features, selected_features, auc_scores, auc_scores_i,
            cv_indices, test_sets, futures, seq_pos>>

vars == <<inputs, n_jobs, pc, err, locals, n_calls, scorer_raised, oracle,
          call, first>>

----------------------------------------------------------------------------
(* Helpers for Python / numpy values *)

Abs(v) == IF v < 0 THEN -v ELSE v

Range(s) == {s[i] : i \in DOMAIN s}

isfinite(v) == v # NaN

\* A Python list or 1-d array is a function on 0 .. len-1.
ListLen(lst) == Cardinality(DOMAIN lst)

EmptyList == [i \in {} |-> NaN]

RECURSIVE SortedSeq(_)
SortedSeq(S) ==
    IF S = {} THEN <<>>
    ELSE LET m == CHOOSE v \in S : \A w \in S : v <= w
         IN  <<m>> \o SortedSeq(S \ {m})

\* np.zeros((X.shape[1], n_features))
Zeros(rows, cols) == [f \in rows |-> [s \in 0 .. (cols - 1) |-> 0]]

\* A step array that starts from zeros instead of np.nan.
ZeroArray == [f \in Features |-> 0]

\* auc_scores = np.empty(X.shape[1]); auc_scores[:] = np.nan
NanArray == [f \in Features |-> NaN]

----------------------------------------------------------------------------
(* The consumed primitives: StratifiedKFold, the classifier, roc_auc_score *)

\* ClassifierCharacteristics(clf).fulfilling(desired) with the two options
\* callable:fit and callable:predict_proba set.
fulfilling(c) == c.has_fit /\ c.has_predict_proba

\* The test fold of every sample: StratifiedKFold(shuffle=True) spreads the
\* samples of each class evenly over the n_splits folds.
FoldAssignments(n_splits) ==
    {f \in [Samples -> 1 .. n_splits] :
        \A k \in Classes : \A i, j \in 1 .. n_splits :
            Cardinality({r \in Samples : y[r] = k /\ f[r] = i})
              - Cardinality({r \in Samples : y[r] = k /\ f[r] = j}) <= 1}

\* [[train, test] for train, test in cv_iterator.split(X, y)]
StratifiedKFold(n_splits) ==
    {[i \in 1 .. n_splits |->
         [train |-> {r \in Samples : f[r] # i},
          test  |-> {r \in Samples : f[r] = i}]] :
     f \in FoldAssignments(n_splits)}

\* roc_auc_score(y, y_pred, sample_weight=w): the lengths of its arguments
\* must agree (ValueError otherwise); the value depends on the data.
roc_auc_score(y_rows, pred_rows, w) ==
    IF w.given /\ Cardinality(w.rows) # Cardinality(y_rows)
    THEN {[raised |-> TRUE, auc |-> NaN]}
    ELSE {[raised |-> FALSE, auc |-> a] : a \in Scores}

----------------------------------------------------------------------------
(* __single_auc_score__ *)

\* The fold whose test_idx, X_test and sample_weight_test are still bound
\* when the for loop over cv_indices has ended.
LastFold(cv) == cv[Len(cv)]

\* clf.fit(X=X_train, y=y_train, sample_weight=sample_weight_train): the
\* estimator fits itself in place and returns itself.
fit(obj, rows) == [obj EXCEPT !.fitted = TRUE]

\* The copy of the classifier that executor.submit pickles for the worker
\* of candidate c (line 309).
WorkerCopy(obj, c) == [obj EXCEPT !.copy = <<c>>]

\* The names bound after k passes of the for loop (lines 194-206): clf is
\* rebound to what fit returned, X_train and test_idx are those of pass k;
\* receivers lists the object each pass called fit on.
RECURSIVE FoldLoop(_, _, _)
FoldLoop(obj, cv, k) ==
    IF k = 0
    THEN [clf |-> obj, X_train |-> {}, test_idx |-> {}, receivers |-> <<>>]
    ELSE LET before == FoldLoop(obj, cv, k - 1)
         IN  [clf |-> fit(before.clf, cv[k].train),
              X_train |-> cv[k].train,
              test_idx |-> cv[k].test,
              receivers |-> Append(before.receivers, before.clf.copy)]

\* The rows of y_pred that hold a prediction after line 207, which runs
\* once, after the loop, with the test_idx the loop left behind.
y_pred(obj, cv) == FoldLoop(obj, cv, Len(cv)).test_idx

\* sample_weight_test as handed to roc_auc_score.
sample_weight_test(cv, sw) ==
    IF sw THEN [given |-> TRUE, rows |-> LastFold(cv).test]
    ELSE [given |-> FALSE, rows |-> {}]

\* The outcomes of one invocation: the classifier's fit or predict_proba may
\* raise (they are missing, or fail on the data), and so may roc_auc_score.
single_auc_score(c, cv, sw) ==
    IF ~c.has_fit \/ ~c.has_predict_proba
    THEN {[raised |-> TRUE, auc |-> NaN]}
    ELSE {[raised |-> TRUE, auc |-> NaN]}
           \cup roc_auc_score(Samples, Samples, sample_weight_test(cv, sw))

----------------------------------------------------------------------------
(* get_all_auc_scores: the candidates and their test sets *)

\* Candidates that do not leave out the features already selected.
test_features_all(selected) == Features

\* test_features: the feature indices not in selected_features.
test_features(selected) == Features \ Range(selected)

\* Backward test sets that keep the tested feature.
test_set_keeping(selected, feature_i, fwd) ==
    IF fwd THEN SortedSeq(Range(selected) \cup {feature_i})
    ELSE SortedSeq(test_features(selected))

\* test_sets[feature_i], the columns of X handed to the scorer (ascending in
\* both directions).
test_set(selected, feature_i, fwd) ==
    IF fwd THEN SortedSeq(Range(selected) \cup {feature_i})
    ELSE SortedSeq(test_features(selected) \ {feature_i})

\* The dict test_sets of lines 291-299.
BuildTestSets(selected, fwd) ==
    [feature_i \in test_features(selected) |->
        test_set(selected, feature_i, fwd)]

\* X[:, test_set] with test_set = np.array([]) (float64) raises IndexError.
IndexableColumns(ts) == ts # <<>>

\* The keys of test_sets in insertion order.
Candidates(ts) == SortedSeq(DOMAIN ts)

----------------------------------------------------------------------------
(* The selection pass of recursive_feature_selection_roc_auc *)

\* The comparisons with the two directions of the plain AUC objective
\* exchanged.
BetterSwapped(auc, value_best, fwd, matching) ==
    IF matching
    THEN IF fwd THEN Abs(auc - Half) < Abs(value_best - Half)
         ELSE Abs(auc - Half) > Abs(value_best - Half)
    ELSE IF fwd THEN auc < value_best
         ELSE auc > value_best

\* The comparisons made non-strict: a later equal entry replaces the best.
BetterOrEqual(auc, value_best, fwd, matching) ==
    IF matching
    THEN IF fwd THEN Abs(auc - Half) <= Abs(value_best - Half)
         ELSE Abs(auc - Half) >= Abs(value_best - Half)
    ELSE IF fwd THEN auc >= value_best
         ELSE auc <= value_best

\* The four strict comparisons of lines 129-146.
Better(auc, value_best, fwd, matching) ==
    IF matching
    THEN IF fwd THEN Abs(auc - Half) < Abs(value_best - Half)
         ELSE Abs(auc - Half) > Abs(value_best - Half)
    ELSE IF fwd THEN auc > value_best
         ELSE auc < value_best

\* for idx, auc in enumerate(auc_scores_i): ... from index idx on.
RECURSIVE SelectionScan(_, _, _, _, _)
SelectionScan(scores, idx, best, fwd, matching) ==
    IF idx \notin DOMAIN scores THEN best
    ELSE LET auc == scores[idx]
             seeded == IF best.value = NoneVal
                       THEN [value |-> auc, index |-> idx]
                       ELSE best
         IN  IF ~isfinite(auc)
             THEN SelectionScan(scores, idx + 1, best, fwd, matching)
             ELSE IF Better(auc, seeded.value, fwd, matching)
                  THEN SelectionScan(scores, idx + 1,
                                     [value |-> auc, index |-> idx],
                                     fwd, matching)
                  ELSE SelectionScan(scores, idx + 1, seeded, fwd, matching)

index_best(scores, fwd, matching) ==
    SelectionScan(scores, 0, [value |-> NoneVal, index |-> NoneVal],
                  fwd, matching).index

\* auc_scores[:, col] = scores
\* A column write that also clears the column before it.
SetColumnAndPrevious(matrix, col, scores) ==
    [f \in DOMAIN matrix |->
        [s \in DOMAIN matrix[f] |->
            IF s = col THEN scores[f]
            ELSE IF s = col - 1 THEN 0 ELSE matrix[f][s]]]

SetColumn(matrix, col, scores) ==
    [f \in DOMAIN matrix |-> [matrix[f] EXCEPT ![col] = scores[f]]]

----------------------------------------------------------------------------
(* The call: recursive_feature_selection_roc_auc *)

NoFirst == [pc |-> "none", err |-> "none", selected_features |-> <<>>,
            auc_scores |-> <<>>]

\* The state a call starts from, for a random source that is (fixed) or is
\* not reproducible from one call to the next.
Entry(fixed) ==
    /\ clf \in Classifiers
    /\ sample_weight \in BOOLEAN
    /\ n_features_arg \in NFeaturesArgs
    /\ cv_steps \in CvStepsArgs
    /\ n_jobs \in NJobsArgs
    /\ forward \in BOOLEAN
    /\ matching_features \in BOOLEAN
    /\ pc = "start"
    /\ err = "none"
    /\ n_features = n_features_arg
    /\ selected_features = <<>>
    /\ auc_scores = <<>>
    /\ auc_scores_i = EmptyList
    /\ cv_indices = <<>>
    /\ test_sets = <<>>
    /\ futures = <<>>
    /\ seq_pos = 0
    /\ n_calls = 0
    /\ scorer_raised = FALSE
    /\ oracle = [fixed |-> fixed, plans |-> <<>>, scores |-> <<>>]
    /\ call = 1
    /\ first = NoFirst

Init == Entry(FALSE)

Raise(exception) ==
    /\ pc' = "error"
    /\ err' = exception

\* The entry without the assertion of line 102.
CheckClassifierSkipped ==
    /\ pc = "start"
    /\ pc' = "clamp"
    /\ UNCHANGED <<inputs, n_jobs, err, locals, n_calls, scorer_raised,
                   oracle, call, first>>

\* Lines 97-103: the classifier sanity check.
CheckClassifier ==
    /\ pc = "start"
    /\ IF fulfilling(clf)
       THEN pc' = "clamp" /\ err' = err
       ELSE Raise("AssertionError")
    /\ UNCHANGED <<inputs, n_jobs, locals, n_calls, scorer_raised, oracle,
                   call, first>>

\* A request that is left as it is, however large.
Unclamped(n, total) == n

\* n_features as clamped by lines 105-108.
Clamped(n, total) == IF n > total THEN total ELSE n

\* Lines 105-110: clamp n_features, allocate the Score Matrix (np.zeros
\* rejects a negative dimension) and the empty Search State.
ClampAndAllocate ==
    /\ pc = "clamp"
    /\ LET n == Clamped(n_features, NumFeatures)
       IN  /\ n_features' = n
           /\ IF n < 0
              THEN /\ Raise("ValueError")
                   /\ UNCHANGED <<auc_scores, selected_features>>
              ELSE /\ auc_scores' = Zeros(Features, n)
                   /\ selected_features' = <<>>
                   /\ pc' = "loop"
                   /\ err' = err
    /\ UNCHANGED <<inputs, n_jobs, auc_scores_i, cv_indices, test_sets,
                   futures, seq_pos, n_calls, scorer_raised, oracle, call,
                   first>>

\* Line 112 (condition false) and line 149.
Return ==
    /\ pc = "loop"
    /\ Len(selected_features) = n_features
    /\ pc' = "done"
    /\ UNCHANGED <<inputs, n_jobs, err, locals, n_calls, scorer_raised,
                   oracle, call, first>>

----------------------------------------------------------------------------
(* get_all_auc_scores *)

\* The plans cv_iterator.split can produce in this step: any, unless the
\* random source is fixed and this step was run before.
SplitPlans(step) ==
    IF oracle.fixed /\ step \in DOMAIN oracle.plans
    THEN {oracle.plans[step]}
    ELSE StratifiedKFold(cv_steps)

\* The results __single_auc_score__ can give for a test set under the plan
\* of the step: those of the data, unless the random source is fixed and the
\* test set was scored before.
ScorerResults(obj, ts, cv) ==
    IF oracle.fixed /\ ts \in DOMAIN oracle.scores
    THEN {oracle.scores[ts]}
    ELSE single_auc_score(obj, cv, sample_weight)

Recorded(ts, res) ==
    IF oracle.fixed
    THEN [oracle EXCEPT !.scores =
            [t \in DOMAIN oracle.scores \cup {ts} |->
                IF t = ts THEN res ELSE oracle.scores[t]]]
    ELSE oracle

\* Submissions in which every other item gets a plan of its own (the folds
\* in another order).
SubmittedOwnPlans(ts, plan) ==
    [c \in DOMAIN ts |->
        [st |-> "queued", auc |-> NaN, X |-> ts[c],
         clf |-> WorkerCopy(clf, c), y_pred |-> {},
         cv_indices |-> IF c % 2 = 0 THEN plan
                        ELSE [i \in DOMAIN plan |-> plan[Len(plan) + 1 - i]]]]

\* futures after the with block has submitted every item of test_sets
\* (lines 306-313), each with its columns of X, its copy of the classifier
\* and the plan of the step; y_pred is the worker's prediction vector.
Submitted(ts, plan) ==
    [c \in DOMAIN ts |->
        [st |-> "queued", auc |-> NaN, X |-> ts[c],
         clf |-> WorkerCopy(clf, c), y_pred |-> {},
         cv_indices |-> plan]]

\* A fold count test that lets a single fold through.
InvalidCvStepsBelowOne(k) == k < 1

\* Line 267: the fold count get_all_auc_scores rejects.
InvalidCvSteps(k) == k < 2

\* Lines 264-302 and the choice of the branch at line 303 (with the
\* submissions of lines 304-313, or line 319).
BeginStep ==
    /\ pc = "loop"
    /\ Len(selected_features) # n_features
    /\ IF InvalidCvSteps(cv_steps)
       THEN /\ Raise("ValueError")
            /\ UNCHANGED <<auc_scores_i, cv_indices, test_sets, futures,
                           seq_pos, oracle>>
       ELSE \E plan \in SplitPlans(Len(selected_features) + 1) :
            /\ cv_indices' = plan
            /\ oracle' = IF oracle.fixed
                         THEN [oracle EXCEPT !.plans =
                                 [i \in DOMAIN oracle.plans
                                        \cup {Len(selected_features) + 1}
                                    |-> IF i \in DOMAIN oracle.plans
                                        THEN oracle.plans[i] ELSE plan]]
                         ELSE oracle
            /\ seq_pos' = 0
            /\ IF \E c \in test_features(selected_features) :
                    ~IndexableColumns(test_set(selected_features, c, forward))
               THEN /\ Raise("IndexError")
                    /\ UNCHANGED <<auc_scores_i, test_sets, futures>>
               ELSE /\ test_sets' = BuildTestSets(selected_features, forward)
                    /\ IF n_jobs > 1
                       THEN /\ auc_scores_i' = NanArray
                            /\ futures' = Submitted(test_sets', plan)
                            /\ pc' = "pool"
                            /\ err' = err
                       ELSE /\ auc_scores_i' = EmptyList
                            /\ futures' = <<>>
                            /\ pc' = "sequential"
                            /\ err' = err
    /\ UNCHANGED <<inputs, n_jobs, n_features, selected_features, auc_scores,
                   n_calls, scorer_raised, call, first>>

\* A worker process of the pool takes the oldest queued item; at most
\* max_workers = n_jobs items run at a time.
WorkerStart(c) ==
    /\ pc = "pool"
    /\ c \in DOMAIN futures
    /\ futures[c].st = "queued"
    /\ \A d \in DOMAIN futures : futures[d].st = "queued" => c <= d
    /\ Cardinality({d \in DOMAIN futures : futures[d].st = "running"}) < n_jobs
    /\ futures' = [futures EXCEPT ![c].st = "running"]
    /\ n_calls' = n_calls + 1
    /\ UNCHANGED <<inputs, n_jobs, pc, err, n_features, selected_features,
                   auc_scores, auc_scores_i, cv_indices, test_sets, seq_pos,
                   scorer_raised, oracle, call, first>>

\* The worker's __single_auc_score__ returns or raises; the future holds
\* the result or the exception.
WorkerFinish(c) ==
    /\ pc = "pool"
    /\ c \in DOMAIN futures
    /\ futures[c].st = "running"
    /\ \E res \in ScorerResults(futures[c].clf, futures[c].X,
                                 futures[c].cv_indices) :
        /\ futures' = [futures EXCEPT
                          ![c].st = IF res.raised THEN "raised" ELSE "done",
                          ![c].auc = res.auc,
                          ![c].clf = FoldLoop(@, futures[c].cv_indices,
                                              Len(futures[c].cv_indices)).clf,
                          ![c].y_pred = IF res.raised THEN {}
                                        ELSE y_pred(futures[c].clf,
                                                    futures[c].cv_indices)]
        /\ scorer_raised' = (scorer_raised \/ res.raised)
        /\ oracle' = Recorded(futures[c].X, res)
    /\ UNCHANGED <<inputs, n_jobs, pc, err, n_features, selected_features,
                   auc_scores, auc_scores_i, cv_indices, test_sets, seq_pos,
                   n_calls, call, first>>

\* Futures read without noticing the exceptions they hold.
AnyRaisedIgnored(fs) == FALSE

\* Line 316: future_i.result() raises if the future holds an exception.
AnyRaised(fs) == \E c \in DOMAIN fs : fs[c].st = "raised"

\* The array filled from the finished futures (lines 315-317).
Gathered(scores, fs) ==
    [f \in DOMAIN scores |->
        IF f \in DOMAIN fs /\ fs[f].st = "done" THEN fs[f].auc ELSE scores[f]]

\* A wait that returns as soon as one future is through.
FirstCompleted(fs) == \E c \in DOMAIN fs : fs[c].st \in {"done", "raised"}

\* Lines 305-314: leaving the with block shuts the pool down and waits for
\* its workers, and wait(futures) returns when all futures are through.
AllCompleted(fs) == \A c \in DOMAIN fs : fs[c].st \in {"done", "raised"}

\* Lines 314-317 and 328: the with block has left (every worker is through),
\* wait returns, every future's result is read; result() of a future that
\* holds an exception raises it.
Gather ==
    /\ pc = "pool"
    /\ AllCompleted(futures)
    /\ IF AnyRaised(futures)
       THEN /\ Raise("ScorerError")
            /\ UNCHANGED <<auc_scores_i, cv_indices, test_sets, futures>>
       ELSE /\ auc_scores_i' = Gathered(auc_scores_i, futures)
            /\ cv_indices' = <<>>
            /\ test_sets' = <<>>
            /\ futures' = <<>>
            /\ pc' = "select"
            /\ err' = err
    /\ UNCHANGED <<inputs, n_jobs, n_features, selected_features, auc_scores,
                   seq_pos, n_calls, scorer_raised, oracle, call, first>>

\* One pass of the loop of lines 320-327, and line 328 after the last one:
\* score the next item of test_sets, then auc_scores[feature_i] = auc, which
\* raises IndexError for an index the list does not have.  The call is
\* made in this process, on the caller's classifier object.
SeqScore ==
    /\ pc = "sequential"
    /\ seq_pos < Len(Candidates(test_sets))
    /\ LET feature_i == Candidates(test_sets)[seq_pos + 1]
           ts == test_sets[feature_i]
           last == seq_pos + 1 = Len(Candidates(test_sets))
       IN  \E res \in ScorerResults(clf, ts, cv_indices) :
            /\ clf' = FoldLoop(clf, cv_indices, Len(cv_indices)).clf
            /\ n_calls' = n_calls + 1
            /\ scorer_raised' = (scorer_raised \/ res.raised)
            /\ oracle' = Recorded(ts, res)
            /\ IF res.raised
               THEN /\ Raise("ScorerError")
                    /\ UNCHANGED <<auc_scores_i, cv_indices, test_sets,
                                   seq_pos>>
               ELSE IF feature_i \notin DOMAIN auc_scores_i
                    THEN /\ Raise("IndexError")
                         /\ UNCHANGED <<auc_scores_i, cv_indices, test_sets,
                                        seq_pos>>
                    ELSE /\ auc_scores_i' =
                               [auc_scores_i EXCEPT ![feature_i] = res.auc]
                         /\ seq_pos' = seq_pos + 1
                         /\ cv_indices' = IF last THEN <<>> ELSE cv_indices
                         /\ test_sets' = IF last THEN <<>> ELSE test_sets
                         /\ pc' = IF last THEN "select" ELSE pc
                         /\ err' = err
    /\ UNCHANGED <<sample_weight, n_features_arg, cv_steps, forward,
                   matching_features, n_jobs, n_features, selected_features,
                   auc_scores, futures, call, first>>

\* Lines 121-148: the selection pass, the column write (numpy rejects an
\* array of another length with ValueError) and the append.
Select ==
    /\ pc = "select"
    /\ IF DOMAIN auc_scores_i = Features
       THEN /\ auc_scores' = SetColumn(auc_scores, Len(selected_features),
                                       auc_scores_i)
            /\ selected_features' =
                  Append(selected_features,
                         index_best(auc_scores_i, forward, matching_features))
            /\ pc' = "loop"
            /\ err' = err
       ELSE /\ Raise("ValueError")
            /\ UNCHANGED <<auc_scores, selected_features>>
    /\ UNCHANGED <<inputs, n_jobs, n_features, auc_scores_i, cv_indices,
                   test_sets, futures, seq_pos, n_calls, scorer_raised,
                   oracle, call, first>>

Next ==
    \/ CheckClassifier
    \/ ClampAndAllocate
    \/ Return
    \/ BeginStep
    \/ \E c \in Features : WorkerStart(c)
    \/ \E c \in Features : WorkerFinish(c)
    \/ Gather
    \/ SeqScore
    \/ Select

Spec == Init /\ [][Next]_vars

----------------------------------------------------------------------------
(* Two calls on the same inputs with a reproducible random source, one on  *)
(* each side of the n_jobs > 1 test of line 303.                           *)

InitPair ==
    /\ Entry(TRUE)
    /\ fulfilling(clf)
    /\ ~InvalidCvSteps(cv_steps)
    /\ n_features_arg >= 0

\* The caller keeps the outcome of the first call and calls again with the
\* other kind of n_jobs.
SecondCall ==
    /\ call = 1
    /\ pc \in {"done", "error"}
    /\ first' = [pc |-> pc, err |-> err,
                 selected_features |-> selected_features,
                 auc_scores |-> auc_scores]
    /\ call' = 2
    /\ n_jobs' \in {j \in NJobsArgs : (j > 1) # (n_jobs > 1)}
    /\ pc' = "start"
    /\ err' = "none"
    /\ n_features' = n_features_arg
    /\ selected_features' = <<>>
    /\ auc_scores' = <<>>
    /\ auc_scores_i' = EmptyList
    /\ cv_indices' = <<>>
    /\ test_sets' = <<>>
    /\ futures' = <<>>
    /\ seq_pos' = 0
    /\ n_calls' = 0
    /\ scorer_raised' = FALSE
    /\ UNCHANGED <<inputs, oracle>>

NextPair ==
    \/ Next
    \/ SecondCall

SpecPair == InitPair /\ [][NextPair]_vars

----------------------------------------------------------------------------
(* Properties *)

\* The steps completed so far, 0-based, and what they left behind.
Steps == 0 .. (Len(selected_features) - 1)

Column(s) == [f \in Features |-> auc_scores[f][s]]

SelectedBefore(s) == {selected_features[i] : i \in 1 .. s}

Chosen(s) == selected_features[s + 1]

Min(a, b) == IF a < b THEN a ELSE b

\* What the objective compares: |AUC - 0.5| for matching features, the AUC
\* otherwise.
Goodness(a) == IF matching_features THEN Abs(a - Half) ELSE a

\* C1: for every completed step s, column s of the Score Matrix is
\* not-a-number at exactly the s feature indices selected before step s and
\* a computed score at the other NumFeatures - s indices; the array that
\* get_all_auc_scores returned for the step has NumFeatures entries with
\* that layout.
C1_ScoreLayout ==
    /\ \A s \in Steps :
        /\ \A f \in Features :
            IF f \in SelectedBefore(s)
            THEN auc_scores[f][s] = NaN
            ELSE auc_scores[f][s] \in Scores
        /\ Cardinality({f \in Features : auc_scores[f][s] = NaN}) = s
        /\ Cardinality({f \in Features : auc_scores[f][s] \in Scores})
             = NumFeatures - s
    /\ pc = "select" =>
        /\ DOMAIN auc_scores_i = Features
        /\ \A f \in Features :
            IF f \in Range(selected_features)
            THEN auc_scores_i[f] = NaN
            ELSE auc_scores_i[f] \in Scores

C1_Witness ==
    /\ pc = "done"
    /\ n_jobs > 1
    /\ Len(selected_features) = NumFeatures

\* The bound on the length of the Search State.
C2_LengthBound ==
    n_features_arg >= 0 =>
        Len(selected_features) <= Min(n_features_arg, NumFeatures)

\* The only step that changes the Search State is the end of an iteration,
\* and it appends one element.
C2_GrowsByOne ==
    /\ (pc = "select" /\ pc' = "loop") =>
          /\ Len(selected_features') = Len(selected_features) + 1
          /\ SubSeq(selected_features', 1, Len(selected_features))
               = selected_features
    /\ selected_features' # selected_features => (pc = "select" /\ pc' = "loop")

\* C2: the Search State is never longer than min(n_features, NumFeatures),
\* it changes only when an iteration completes, and then it is the old
\* Search State with one element appended.
C2_SearchStateGrowth == [](C2_LengthBound) /\ [][C2_GrowsByOne]_vars

C2_Witness ==
    /\ pc = "done"
    /\ n_features_arg > NumFeatures
    /\ Len(selected_features) = Min(n_features_arg, NumFeatures)

\* C3: the index chosen in a step is a finite entry of the step's scores
\* that is optimal among the finite entries: smallest |AUC - 0.5| (matching,
\* forward), largest |AUC - 0.5| (matching, backward), largest AUC (not
\* matching, forward), smallest AUC (not matching, backward).
C3_ChosenIsOptimal ==
    \A s \in Steps :
        LET col == Column(s)
            ch == Chosen(s)
        IN  /\ ch \in Features
            /\ isfinite(col[ch])
            /\ \A f \in Features : isfinite(col[f]) =>
                /\ (matching_features /\ forward) =>
                      Abs(col[ch] - Half) <= Abs(col[f] - Half)
                /\ (matching_features /\ ~forward) =>
                      Abs(col[ch] - Half) >= Abs(col[f] - Half)
                /\ (~matching_features /\ forward) => col[ch] >= col[f]
                /\ (~matching_features /\ ~forward) => col[ch] <= col[f]

C3_Witness ==
    /\ matching_features
    /\ ~forward
    /\ \E s \in Steps : \E f \in Features :
        /\ isfinite(Column(s)[f])
        /\ Abs(Column(s)[f] - Half) < Abs(Column(s)[Chosen(s)] - Half)

\* C6: no feature index is twice in the Search State, and every element is
\* a feature index.
C6_NoDuplicates ==
    /\ \A i, j \in DOMAIN selected_features :
          i # j => selected_features[i] # selected_features[j]
    /\ \A i \in DOMAIN selected_features : selected_features[i] \in Features

C6_Witness ==
    /\ ~forward
    /\ Len(selected_features) >= 2

\* C7: a call with cv_steps < 2 and a step to perform ends in ValueError
\* with no invocation of the scorer, no plan, no future and no result.
C7_FoldCountRejected ==
    (fulfilling(clf) /\ cv_steps < 2 /\ n_features_arg >= 1) =>
        /\ n_calls = 0
        /\ ~scorer_raised
        /\ cv_indices = <<>>
        /\ futures = <<>>
        /\ selected_features = <<>>
        /\ pc \in {"start", "clamp", "loop", "error"}
        /\ pc = "error" => err = "ValueError"

C7_Witness ==
    /\ fulfilling(clf)
    /\ cv_steps < 2
    /\ n_features_arg >= 1
    /\ pc = "error"
    /\ err = "ValueError"

\* After a failure of the scorer the call is waiting for the pool or has
\* ended with the error.
C8_NoResultAfterFailure ==
    scorer_raised =>
        /\ pc \in {"pool", "error"}
        /\ pc = "error" => err = "ScorerError"

\* A future that holds an exception stays as it is, and after a failure
\* neither the Search State nor the Score Matrix changes.
C8_NoRetry ==
    /\ \A c \in DOMAIN futures : futures[c].st = "raised" =>
          (c \in DOMAIN futures' /\ futures'[c] = futures[c])
    /\ scorer_raised =>
          /\ selected_features' = selected_features
          /\ auc_scores' = auc_scores
          /\ scorer_raised'

\* C8: once an invocation of the scorer has raised, the call returns no
\* result: it ends with that error, no selection is made from the scores of
\* the other candidates, and the failed candidate is not scored again.
C8_ScorerFailureIsFatal ==
    [](C8_NoResultAfterFailure) /\ [][C8_NoRetry]_vars

C8_Witness ==
    /\ pc = "error"
    /\ err = "ScorerError"
    /\ n_jobs > 1
    /\ \E c \in DOMAIN futures : futures[c].st = "done"

\* C9: among equally good finite entries the one with the lowest feature
\* index is chosen: no finite entry before the chosen one is as good.
C9_TieKeepsLowestIndex ==
    \A s \in Steps :
        \A f \in Features :
            (f < Chosen(s) /\ isfinite(Column(s)[f])) =>
                Goodness(Column(s)[f]) # Goodness(Column(s)[Chosen(s)])

C9_Witness ==
    /\ matching_features
    /\ \E s \in Steps : \E f \in Features :
        /\ f > Chosen(s)
        /\ isfinite(Column(s)[f])
        /\ Column(s)[f] # Column(s)[Chosen(s)]
        /\ Goodness(Column(s)[f]) = Goodness(Column(s)[Chosen(s)])

\* C10: a classifier without a callable fit and a callable predict_proba
\* ends the call with the assertion error while n_features is as requested,
\* nothing is allocated, no plan is built and no candidate is scored.
C10_ClassifierRejectedFirst ==
    ~fulfilling(clf) =>
        /\ pc \in {"start", "error"}
        /\ pc = "error" => err = "AssertionError"
        /\ n_features = n_features_arg
        /\ auc_scores = <<>>
        /\ cv_indices = <<>>
        /\ futures = <<>>
        /\ n_calls = 0

C10_Witness ==
    /\ ~fulfilling(clf)
    /\ n_features_arg > NumFeatures
    /\ pc = "error"
    /\ err = "AssertionError"

\* C5: a call that asks for more features than there are, with a valid
\* classifier and fold count and no failure of the scorer, raises nothing
\* and returns a Search State of NumFeatures elements and a Score Matrix of
\* NumFeatures columns.
C5_ClampedRunCompletes ==
    (n_features_arg > NumFeatures /\ fulfilling(clf) /\ cv_steps >= 2
       /\ ~scorer_raised) =>
        /\ pc # "error"
        /\ pc = "done" =>
              /\ Len(selected_features) = NumFeatures
              /\ \A f \in Features : ListLen(auc_scores[f]) = NumFeatures

\* C4: with a reproducible random source and a scorer that does not fail,
\* the call with n_jobs <= 1 and the call with n_jobs > 1 agree: when one of
\* them returns, both return, with the same Search State and the same Score
\* Matrix.
C4_ConcurrencyInvariance ==
    (call = 2 /\ pc \in {"done", "error"} /\ ~scorer_raised
       /\ first.err # "ScorerError" /\ (pc = "done" \/ first.pc = "done")) =>
        /\ pc = "done"
        /\ first.pc = "done"
        /\ selected_features = first.selected_features
        /\ auc_scores = first.auc_scores


\* C11: a call with a valid classifier, n_features >= 0 and cv_steps >= 2
\* whose evaluations all complete without failure does not stop before it
\* returns, and it returns after min(n_features, NumFeatures) iterations
\* with the Search State and the Score Matrix of that many steps.
C11_RunTerminatesWithResult ==
    (fulfilling(clf) /\ n_features_arg >= 0 /\ cv_steps >= 2
       /\ ~scorer_raised) =>
        /\ pc = "done" \/ ENABLED Next
        /\ pc = "done" =>
              /\ Len(selected_features) = Min(n_features_arg, NumFeatures)
              /\ \A f \in Features :
                    ListLen(auc_scores[f]) = Min(n_features_arg, NumFeatures)


\* The pool is left only when no future is queued or running, and the
\* selection pass is entered with the result of every future in the array.
C12_LeavesPoolWhenAllThrough ==
    /\ (pc = "pool" /\ pc' # "pool") =>
          \A c \in DOMAIN futures : futures[c].st \in {"done", "raised"}
    /\ (pc = "pool" /\ pc' = "select") =>
          /\ DOMAIN futures = Features \ Range(selected_features)
          /\ \A c \in DOMAIN futures :
                /\ futures[c].st = "done"
                /\ auc_scores_i'[c] = futures[c].auc

\* In the selection pass of a pool step every candidate has its score.
C12_AllScoresPresent ==
    (pc = "select" /\ n_jobs > 1) =>
        \A c \in Features \ Range(selected_features) :
            auc_scores_i[c] \in Scores

\* C12: with n_jobs > 1 the selection pass of a step starts only after
\* every candidate submitted for the step is through, whatever the order in
\* which the workers finish, and then the step's array holds the score of
\* every candidate.
C12_FullBarrier ==
    [](C12_AllScoresPresent) /\ [][C12_LeavesPoolWhenAllThrough]_vars

C12_Witness ==
    /\ pc = "select"
    /\ n_jobs > 1
    /\ Len(selected_features) = 1
    /\ \A c \in Features \ Range(selected_features) :
          auc_scores_i[c] \in Scores


\* The scorer invocations of the steps before step s: every feature not
\* yet in the search state was a candidate of its step.
RECURSIVE CallsBefore(_)
CallsBefore(s) ==
    IF s = 0 THEN 0 ELSE CallsBefore(s - 1) + (NumFeatures - (s - 1))

Ascending(seq) == \A i, j \in DOMAIN seq : i < j => seq[i] < seq[j]

\* The feature subset the step must evaluate for candidate c.
ExpectedSubset(c) ==
    IF forward THEN Range(selected_features) \cup {c}
    ELSE (Features \ Range(selected_features)) \ {c}

\* C13: while a step evaluates, its candidates are exactly the features
\* outside the search state; candidate c is evaluated on the search state
\* united with {c} (forward) or on the features outside the search state
\* without c (backward), in ascending index order; and the scorer has been
\* invoked once per candidate taken up, never twice for one candidate.
C13_CandidatesAndSubsets ==
    pc \in {"pool", "sequential"} =>
        /\ DOMAIN test_sets = Features \ Range(selected_features)
        /\ \A c \in DOMAIN test_sets :
              /\ Ascending(test_sets[c])
              /\ Range(test_sets[c]) = ExpectedSubset(c)
        /\ pc = "pool" =>
              /\ DOMAIN futures = DOMAIN test_sets
              /\ \A c \in DOMAIN futures : futures[c].X = test_sets[c]
              /\ n_calls = CallsBefore(Len(selected_features))
                    + Cardinality({c \in DOMAIN futures :
                                      futures[c].st # "queued"})
        /\ pc = "sequential" =>
              n_calls = CallsBefore(Len(selected_features)) + seq_pos

C13_Witness ==
    /\ pc = "pool" /\ ~forward /\ Len(selected_features) = 1
    /\ \A c \in DOMAIN futures : futures[c].st = "done"
    /\ \E c \in DOMAIN test_sets : Len(test_sets[c]) = NumFeatures - 2

\* The plan of a step changes only when the step begins or ends.
C16_PlanFixedDuringStep ==
    /\ (cv_indices' # cv_indices /\ cv_indices' # <<>>) => pc = "loop"
    /\ (pc \in {"pool", "sequential"} /\ pc' = pc) =>
          /\ cv_indices' = cv_indices
          /\ \A c \in DOMAIN futures :
                futures'[c].cv_indices = futures[c].cv_indices

C16_SamePlanForAll ==
    pc = "pool" =>
        /\ Len(cv_indices) = cv_steps
        /\ \A c \in DOMAIN futures : futures[c].cv_indices = cv_indices

\* C16: the fold plan is built once per step, every candidate of the step
\* is evaluated with that same plan, and no evaluation changes it.
C16_OnePlanPerStep ==
    [](C16_SamePlanForAll) /\ [][C16_PlanFixedDuringStep]_vars

C16_Witness ==
    /\ pc = "pool" /\ Len(selected_features) = 1
    /\ Cardinality(DOMAIN futures) >= 2
    /\ \E c \in DOMAIN futures : futures[c].st = "done"
    /\ \E c \in DOMAIN futures : futures[c].st = "queued"


\* The rows in the test part of some fold of a plan.
TestRows(cv) == UNION {cv[i].test : i \in DOMAIN cv}

\* C14: a scorer call that has returned fitted on each fold's training rows
\* and left a classifier prediction at every test index of every fold of
\* its plan, not only at those of the last fold.
C14_EveryFoldPredicted ==
    \A c \in DOMAIN futures :
        futures[c].st = "done" =>
            LET cv == futures[c].cv_indices
            IN  /\ \A i \in DOMAIN cv :
                      FoldLoop(WorkerCopy(clf, c), cv, i).X_train = cv[i].train
                /\ \A i \in DOMAIN cv : cv[i].test \subseteq futures[c].y_pred
                /\ futures[c].y_pred = TestRows(cv)

\* C15: the caller's classifier is never fitted, and in a scorer call that
\* has returned no two folds called fit on the same object, nor did two
\* candidates share an object.
C15_IndependentInstances ==
    /\ ~clf.fitted
    /\ \A c \in DOMAIN futures :
          futures[c].st = "done" =>
              LET r == FoldLoop(WorkerCopy(clf, c), futures[c].cv_indices,
                                Len(futures[c].cv_indices)).receivers
              IN  /\ \A i, j \in DOMAIN r : i # j => r[i] # r[j]
                  /\ \A i \in DOMAIN r : r[i] # clf.copy
                  /\ \A d \in DOMAIN futures \ {c} :
                        futures[d].clf.copy # futures[c].clf.copy

\* C17: when sample weights are supplied and the scorer has been invoked
\* on a plan of at least 2 folds, the weights handed to roc_auc_score cover
\* the rows of the label vector, and the scoring call can return a score.
C17_WeightsCoverScoredRows ==
    (sample_weight /\ n_calls > 0 /\ Len(cv_indices) >= 2) =>
        /\ sample_weight_test(cv_indices, sample_weight).rows = Samples
        /\ \E res \in roc_auc_score(Samples, Samples,
                                    sample_weight_test(cv_indices,
                                                       sample_weight)) :
              ~res.raised

\* C18: a step of the run changes the score matrix only in the column of
\* the running step, so every column written earlier stays as it is, and
\* it leaves the sample weights as they are.
C18_OnlyColumnOfStepWritten ==
    [][/\ sample_weight' = sample_weight
       /\ (auc_scores # <<>> /\ auc_scores' # auc_scores) =>
             /\ pc = "select"
             /\ DOMAIN auc_scores' = DOMAIN auc_scores
             /\ \A f \in Features :
                   /\ DOMAIN auc_scores'[f] = DOMAIN auc_scores[f]
                   /\ \A s \in DOMAIN auc_scores[f] :
                         s # Len(selected_features) =>
                             auc_scores'[f][s] = auc_scores[f][s]]_vars

C18_Witness ==
    /\ Len(selected_features) = 2 /\ n_features >= 2
    /\ \E f \in Features : auc_scores[f][0] # auc_scores[f][1]
    /\ \E f \in Features : auc_scores[f][0] \in Scores \ {0}

====
